---- MODULE Spec2Model ----
(***************************************************************************)
(* Model of the DataONE notification client: the TypeScript class          *)
(* NotificationClient (client.ts) and the earlier JavaScript class         *)
(* NotificationService.  One call of subscribe / unsubscribe /             *)
(* getSubscriptions is an async function: the code between two awaits runs *)
(* atomically, so every action below is one such segment.                  *)
(*                                                                         *)
(* A JavaScript string is a sequence of characters.  A run of unreserved,  *)
(* non-blank characters that is never split may be written as one element  *)
(* (<<"citations">>).                                                      *)
(***************************************************************************)
EXTENDS Integers, Sequences, FiniteSets, TLC

VARIABLES config, client, calls

vars == <<config, client, calls>>

(* ------------------------------ bounds -------------------------------- *)

\* longest pid argument that is enumerated
MaxLen == 2

\* longest prefixUrl that is enumerated
MaxUrlLen == 3

(* --------------------------- JavaScript values ------------------------ *)

JsNull == [kind |-> "null", str |-> <<>>]

JsUndefined == [kind |-> "undefined", str |-> <<>>]

JsString(s) == [kind |-> "string", str |-> s]

JsBool(b) == [kind |-> "boolean", str |-> IF b THEN <<"true">> ELSE <<"false">>]

\* ToBoolean of a value: null, undefined, "" and false are falsy
Truthy(v) ==
  CASE v.kind = "string" -> v.str # <<>>
    [] v.kind = "boolean" -> v.str = <<"true">>
    [] v.kind = "function" -> TRUE
    [] OTHER -> FALSE

\* a function value; its str names the function
JsFunction(name) == [kind |-> "function", str |-> <<name>>]

typeof(v) == IF v.kind = "null" THEN "object" ELSE v.kind

\* object spread { ...a, ...b }: the keys of b win
Spread(a, b) ==
  [k \in (DOMAIN a) \cup (DOMAIN b) |-> IF k \in DOMAIN b THEN b[k] ELSE a[k]]

\* the object a without the keys ks (rest of a destructuring pattern)
Rest(a, ks) == [k \in (DOMAIN a) \ ks |-> a[k]]

EmptyObject == [k \in {} |-> <<>>]

WhiteSpace == {" ", "\t", "\n"}

RECURSIVE trimStart(_)
trimStart(s) ==
  IF s # <<>> /\ Head(s) \in WhiteSpace THEN trimStart(Tail(s)) ELSE s

RECURSIVE trimEnd(_)
trimEnd(s) ==
  IF s # <<>> /\ s[Len(s)] \in WhiteSpace
    THEN trimEnd(SubSeq(s, 1, Len(s) - 1))
    ELSE s

\* String.prototype.trim
trim(s) == trimEnd(trimStart(s))

\* variant: "/" is left alone, as encodeURI does
PercentEncode_KeepsSlash(ch) ==
  CASE ch = " " -> <<"%", "2", "0">>
    [] ch = "%" -> <<"%", "2", "5">>
    [] ch = "\t" -> <<"%", "0", "9">>
    [] ch = "\n" -> <<"%", "0", "A">>
    [] OTHER -> <<ch>>

\* the escape encodeURIComponent writes for one character
PercentEncode(ch) ==
  CASE ch = " " -> <<"%", "2", "0">>
    [] ch = "/" -> <<"%", "2", "F">>
    [] ch = "%" -> <<"%", "2", "5">>
    [] ch = "\t" -> <<"%", "0", "9">>
    [] ch = "\n" -> <<"%", "0", "A">>
    [] OTHER -> <<ch>>

RECURSIVE encodeURIComponent(_)
encodeURIComponent(s) ==
  IF s = <<>> THEN <<>>
  ELSE PercentEncode(Head(s)) \o encodeURIComponent(Tail(s))

\* String(v) as a template literal or encodeURIComponent converts v
JsToString(v) ==
  CASE v.kind = "null" -> <<"null">>
    [] v.kind = "undefined" -> <<"undefined">>
    [] OTHER -> v.str

(* ------------------------------ constants ----------------------------- *)

DEFAULT_TYPES == << <<"datasetChanges">>, <<"citations">> >>

ERROR_MESSAGES ==
  [prefixUrl |-> "prefixUrl is required",
   getToken |-> "A getToken function is required",
   validatePID |-> "validatePID must be a function",
   resourceTypes |-> "resourceTypes must be a non-empty array of strings",
   resourceType |-> "Invalid resource type",
   noPid |-> "PID is required",
   invalidPid |-> "PID is invalid",
   noToken |-> "Token is required"]

HTTP_METHODS == [GET |-> "GET", POST |-> "POST", DELETE |-> "DELETE"]

\* variant: 304 is not among the statuses without a body
noBodyStatuses_Without304 == {204, 205}

noBodyStatuses == {204, 205, 304}

TypeError(msg) == [name |-> "TypeError", message |-> msg]

Error(msg) == [name |-> "Error", message |-> msg]

(* ----------------------------- construction -------------------------- *)

\* prefixUrl.replace(/\/+$/, "")
RECURSIVE stripTrailingSlashes(_)
stripTrailingSlashes(s) ==
  IF s # <<>> /\ s[Len(s)] = "/"
    THEN stripTrailingSlashes(SubSeq(s, 1, Len(s) - 1))
    ELSE s

\* the elements of a sequence, as a Set
SetOf(seq) == {seq[i] : i \in DOMAIN seq}

\* variant: the entries are filtered but not trimmed
normalizeResourceTypes_NoTrim(resourceTypes) ==
  {t \in {resourceTypes[i] : i \in DOMAIN resourceTypes} : Len(t) > 0}

\* types.map(trim).filter(nonempty); the Set built from it drops duplicates
normalizeResourceTypes(resourceTypes) ==
  {t \in {trim(resourceTypes[i]) : i \in DOMAIN resourceTypes} : Len(t) > 0}

\* the validator a client uses when none is configured: () => true
DefaultValidator == JsFunction("() => true")

Failed(cls, msg) ==
  [ok |-> FALSE, cls |-> cls, error |-> TypeError(msg), prefixUrl |-> <<>>,
   getToken |-> JsUndefined, validatePID |-> JsUndefined, resourceTypes |-> {}]

Constructed(cls, prefixUrl, getToken, validatePID, types) ==
  [ok |-> TRUE, cls |-> cls, error |-> TypeError(""), prefixUrl |-> prefixUrl,
   getToken |-> getToken, validatePID |-> validatePID, resourceTypes |-> types]

\* new NotificationClient(cfg); cfg.resourceTypes is [given, items]
NotificationClient(cfg) ==
  LET resourceTypes == IF cfg.resourceTypes.given
                         THEN cfg.resourceTypes.items ELSE DEFAULT_TYPES
      normalizedTypes == normalizeResourceTypes(resourceTypes)
  IN  IF ~Truthy(cfg.prefixUrl)
        THEN Failed("NotificationClient", ERROR_MESSAGES.prefixUrl)
      ELSE IF typeof(cfg.getToken) # "function"
        THEN Failed("NotificationClient", ERROR_MESSAGES.getToken)
      ELSE IF Truthy(cfg.validatePID) /\ typeof(cfg.validatePID) # "function"
        THEN Failed("NotificationClient", ERROR_MESSAGES.validatePID)
      ELSE IF Cardinality(normalizedTypes) = 0
        THEN Failed("NotificationClient", ERROR_MESSAGES.resourceTypes)
      ELSE Constructed("NotificationClient",
                       stripTrailingSlashes(cfg.prefixUrl.str),
                       cfg.getToken,
                       IF cfg.validatePID.kind \in {"null", "undefined"}
                         THEN DefaultValidator ELSE cfg.validatePID,
                       normalizedTypes)

\* new NotificationService(cfg)
NotificationService(cfg) ==
  LET validatePID == IF cfg.validatePID.kind = "undefined"
                       THEN DefaultValidator ELSE cfg.validatePID
      resourceTypes == IF cfg.resourceTypes.given
                         THEN cfg.resourceTypes.items ELSE DEFAULT_TYPES
  IN  IF ~Truthy(cfg.prefixUrl)
        THEN Failed("NotificationService", ERROR_MESSAGES.prefixUrl)
      ELSE IF typeof(cfg.getToken) # "function"
        THEN Failed("NotificationService", ERROR_MESSAGES.getToken)
      ELSE IF typeof(validatePID) # "function"
        THEN Failed("NotificationService", ERROR_MESSAGES.validatePID)
      ELSE IF Len(resourceTypes) = 0
        THEN Failed("NotificationService", ERROR_MESSAGES.resourceTypes)
      ELSE Constructed("NotificationService",
                       stripTrailingSlashes(cfg.prefixUrl.str),
                       cfg.getToken, validatePID, SetOf(resourceTypes))

(* -------------------------- the public operations ---------------------- *)

\* variant: subscribe dispatches with the read verb
subscribe_AsGet(resourceType, options) ==
  Spread([resourceType |-> resourceType, method |-> HTTP_METHODS.GET,
          pidRequired |-> TRUE], options)

\* the options record subscribe hands to request: { resourceType,
\* method: POST, pidRequired: true, ...options }
subscribe(resourceType, options) ==
  Spread([resourceType |-> resourceType, method |-> HTTP_METHODS.POST,
          pidRequired |-> TRUE], options)

\* the options record unsubscribe hands to request
unsubscribe(resourceType, options) ==
  Spread([resourceType |-> resourceType, method |-> HTTP_METHODS.DELETE,
          pidRequired |-> TRUE], options)

\* the options record getSubscriptions hands to request (with pid null)
getSubscriptions(resourceType, options) ==
  Spread([resourceType |-> resourceType, method |-> HTTP_METHODS.GET,
          pidRequired |-> FALSE], options)

\* what the public operation resolves to when the request routine resolved
\* to v.  NotificationClient.unsubscribe awaits the request and returns
\* nothing; every other operation returns the request's promise.
Returned(cls, op, v) ==
  IF cls = "NotificationClient" /\ op = "unsubscribe" THEN JsUndefined ELSE v

(* ------------------------- one call and its record -------------------- *)

Idle ==
  [pc |-> "idle", op |-> "none", pid |-> JsUndefined,
   resourceType |-> JsString(<<>>), options |-> EmptyObject,
   intent |-> EmptyObject, validatorArgs |-> <<>>, tokenCalls |-> 0,
   token |-> JsUndefined, kyCalls |-> <<>>, status |-> 0, jsonCalls |-> 0,
   isValid |-> JsUndefined, body |-> JsUndefined, log |-> <<>>,
   thrown |-> Error(""), value |-> JsUndefined, error |-> Error(""),
   startedAfter |-> {}]

\* the promise of the call is rejected with err
Reject(call, err) == [call EXCEPT !.pc = "rejected", !.error = err]

\* the promise of the call is fulfilled with v
Resolve(call, v) == [call EXCEPT !.pc = "resolved", !.value = v]

\* variant: a failure of an awaited collaborator is wrapped into a new error
requestFailed_Wraps(call, e) == Reject(call, Error("Request failed"))

\* an awaited collaborator failed with e: request has no try/catch, so its
\* promise is rejected with e
requestFailed(call, e) == Reject(call, e)

\* destructuring of the request options: method = GET, pidRequired = true
MethodOf(intent) ==
  IF "method" \in DOMAIN intent THEN intent.method ELSE HTTP_METHODS.GET

PidRequiredOf(intent) ==
  IF "pidRequired" \in DOMAIN intent THEN intent.pidRequired ELSE TRUE

\* `Bearer ${token}`
Bearer(token) == <<"Bearer ">> \o JsToString(token)

(* --------------------- NotificationClient.request --------------------- *)

\* resourceType.trim()
normalizedResourceType(intent) == trim(intent.resourceType.str)

\* variant: the pid is not trimmed
normalizedPid_NoTrim(pid) ==
  IF pid.kind \in {"null", "undefined"} THEN <<>> ELSE pid.str

\* pid?.trim() ?? ""
normalizedPid(pid) ==
  IF pid.kind \in {"null", "undefined"} THEN <<>> ELSE trim(pid.str)

\* variant: a call is answered from an earlier resolved call of the same
\* operation and resource type
InvokeToken_Cached(call) ==
  LET hits == {d \in call.startedAfter :
                 /\ calls[d].pc = "resolved"
                 /\ calls[d].op = call.op
                 /\ calls[d].resourceType = call.resourceType}
  IN  IF hits # {}
        THEN Resolve(call, calls[CHOOSE d \in hits : TRUE].value)
        ELSE [call EXCEPT !.pc = "awaitToken", !.tokenCalls = @ + 1,
                          !.log = Append(@, "getToken")]

\* this.getToken() is invoked and awaited
InvokeToken(call) ==
  [call EXCEPT !.pc = "awaitToken", !.tokenCalls = @ + 1,
               !.log = Append(@, "getToken")]

\* this.validatePID(arg) is invoked and awaited; a value that is not
\* callable makes the invocation itself throw
InvokeValidator(cl, call, arg) ==
  IF typeof(cl.validatePID) # "function"
    THEN Reject(call, TypeError("validatePID is not a function"))
    ELSE [call EXCEPT !.pc = "awaitValidator",
                      !.validatorArgs = Append(@, arg),
                      !.log = Append(@, "validatePID")]

\* variant: the pid is checked before the resource type
requestStart_PidFirst(cl, call) ==
  LET pidRequired == PidRequiredOf(call.intent)
      nType == normalizedResourceType(call.intent)
      nPid == normalizedPid(call.pid)
  IN  IF pidRequired /\ Len(nPid) = 0
        THEN Reject(call, TypeError(ERROR_MESSAGES.noPid))
      ELSE IF nType \notin cl.resourceTypes
        THEN Reject(call, TypeError(ERROR_MESSAGES.resourceType))
      ELSE IF pidRequired /\ Len(nPid) > 0
        THEN InvokeValidator(cl, call, JsString(nPid))
      ELSE InvokeToken(call)

\* variant: the validator step is not guarded by pidRequired
requestStart_AlwaysValidates(cl, call) ==
  LET pidRequired == PidRequiredOf(call.intent)
      nType == normalizedResourceType(call.intent)
      nPid == normalizedPid(call.pid)
  IN  IF nType \notin cl.resourceTypes
        THEN Reject(call, TypeError(ERROR_MESSAGES.resourceType))
      ELSE IF pidRequired /\ Len(nPid) = 0
        THEN Reject(call, TypeError(ERROR_MESSAGES.noPid))
      ELSE InvokeValidator(cl, call, JsString(nPid))

\* variant: the token is requested while the validator is still pending
requestStart_TokenWhilePending(cl, call) ==
  LET pidRequired == PidRequiredOf(call.intent)
      nType == normalizedResourceType(call.intent)
      nPid == normalizedPid(call.pid)
  IN  IF nType \notin cl.resourceTypes
        THEN Reject(call, TypeError(ERROR_MESSAGES.resourceType))
      ELSE IF pidRequired /\ Len(nPid) = 0
        THEN Reject(call, TypeError(ERROR_MESSAGES.noPid))
      ELSE IF pidRequired /\ Len(nPid) > 0
        THEN InvokeToken(InvokeValidator(cl, call, JsString(nPid)))
      ELSE InvokeToken(call)

\* request, from its entry to its first await
requestStart(cl, call) ==
  LET pidRequired == PidRequiredOf(call.intent)
      nType == normalizedResourceType(call.intent)
      nPid == normalizedPid(call.pid)
  IN  IF nType \notin cl.resourceTypes
        THEN Reject(call, TypeError(ERROR_MESSAGES.resourceType))
      ELSE IF pidRequired /\ Len(nPid) = 0
        THEN Reject(call, TypeError(ERROR_MESSAGES.noPid))
      ELSE IF pidRequired /\ Len(nPid) > 0
        THEN InvokeValidator(cl, call, JsString(nPid))
      ELSE InvokeToken(call)

\* variant: the validator's answer is not looked at
requestAfterValidator_Ignores(call, isValid) == InvokeToken(call)

\* request, from the validator's answer to the next await
requestAfterValidator(call, isValid) ==
  IF ~Truthy(isValid)
    THEN Reject(call, TypeError(ERROR_MESSAGES.invalidPid))
    ELSE InvokeToken(call)

\* the endpoint request builds
requestEndpoint(call) ==
  LET nPid == normalizedPid(call.pid)
      endpoint == encodeURIComponent(normalizedResourceType(call.intent))
  IN  IF PidRequiredOf(call.intent) /\ Len(nPid) > 0
        THEN endpoint \o <<"/">> \o encodeURIComponent(nPid)
        ELSE endpoint

\* the options request passes to ky: { method, headers, ...rest }
requestKyOptions(call, token) ==
  Spread([method |-> MethodOf(call.intent),
          headers |-> [Authorization |-> Bearer(token)]],
         Rest(call.intent, {"resourceType", "method", "pidRequired"}))

\* variant: an empty token is sent like any other
requestAfterToken_NoCheck(call, token) ==
  [call EXCEPT !.pc = "awaitTransport", !.log = Append(@, "ky"),
               !.kyCalls = Append(@, [endpoint |-> requestEndpoint(call),
                                      options |-> requestKyOptions(call, token)])]

\* request, from the token's arrival to the next await
requestAfterToken(call, token) ==
  IF ~Truthy(token)
    THEN Reject(call, Error(ERROR_MESSAGES.noToken))
    ELSE [call EXCEPT !.pc = "awaitTransport", !.log = Append(@, "ky"),
                      !.kyCalls = Append(@, [endpoint |-> requestEndpoint(call),
                                             options |-> requestKyOptions(call, token)])]

\* request, from the response's arrival to the next await or the return
requestAfterResponse(call, status) ==
  IF status \in noBodyStatuses
    THEN Resolve(call,
                 Returned("NotificationClient", call.op, JsUndefined))
    ELSE [call EXCEPT !.pc = "awaitJson", !.log = Append(@, "json"),
                      !.jsonCalls = @ + 1]

\* variant: the decoded body is kept in a place the calls share, and a call
\* returns what another resolved call has left there
requestAfterJson_Shared(call, body) ==
  LET others == {d \in DOMAIN calls :
                   calls[d].pc = "resolved" /\ calls[d].jsonCalls = 1}
  IN  IF others # {}
        THEN Resolve(call, Returned("NotificationClient", call.op,
                                    calls[CHOOSE d \in others : TRUE].body))
        ELSE Resolve(call, Returned("NotificationClient", call.op, body))

\* request, from the decoded body to the return
requestAfterJson(call, body) ==
  Resolve(call, Returned("NotificationClient", call.op, body))

(* --------------------- NotificationService._request ------------------- *)

Service_validateResourceType(cl, resourceType) ==
  typeof(resourceType) = "string" /\ resourceType.str \in cl.resourceTypes

\* _request, from its entry to its first await
Service_requestStart(cl, call) ==
  LET pidRequired == PidRequiredOf(call.intent)
  IN  IF ~Service_validateResourceType(cl, call.intent.resourceType)
        THEN Reject(call, TypeError(ERROR_MESSAGES.resourceType))
      ELSE IF pidRequired /\ ~Truthy(call.pid)
        THEN Reject(call, TypeError(ERROR_MESSAGES.noPid))
      ELSE IF pidRequired
        THEN InvokeValidator(cl, call, call.pid)
      ELSE InvokeToken(call)

\* _request, from the validator's answer to the next await
Service_requestAfterValidator(call, ok) ==
  IF ~Truthy(ok)
    THEN Reject(call, TypeError(ERROR_MESSAGES.invalidPid))
    ELSE InvokeToken(call)

\* the endpoint _request builds
Service_requestEndpoint(call) ==
  LET endpoint == encodeURIComponent(JsToString(call.intent.resourceType))
  IN  IF PidRequiredOf(call.intent)
        THEN endpoint \o <<"/">> \o encodeURIComponent(JsToString(call.pid))
        ELSE endpoint

\* { ...authHeader, ...(headers || {}) }
Service_mergedHeaders(intent, token) ==
  Spread([Authorization |-> Bearer(token)],
         IF "headers" \in DOMAIN intent THEN intent.headers ELSE EmptyObject)

\* the options _request passes to ky: { method, headers: mergedHeaders, ...rest }
Service_requestKyOptions(call, token) ==
  Spread([method |-> MethodOf(call.intent),
          headers |-> Service_mergedHeaders(call.intent, token)],
         Rest(call.intent, {"resourceType", "method", "pidRequired", "headers"}))

\* _request, from the token's arrival to the next await
Service_requestAfterToken(call, token) ==
  IF ~Truthy(token)
    THEN Reject(call, Error(ERROR_MESSAGES.noToken))
    ELSE [call EXCEPT !.pc = "awaitTransport", !.log = Append(@, "ky"),
                      !.kyCalls = Append(@, [endpoint |-> Service_requestEndpoint(call),
                                             options |-> Service_requestKyOptions(call, token)])]

\* _request, from the response's arrival to the next await or the return
Service_requestAfterResponse(call, status) ==
  IF status \in noBodyStatuses
    THEN Resolve(call,
                 Returned("NotificationService", call.op, JsUndefined))
    ELSE [call EXCEPT !.pc = "awaitJson", !.log = Append(@, "json"),
                      !.jsonCalls = @ + 1]

\* _request, from the decoded body to the return
Service_requestAfterJson(call, body) ==
  Resolve(call, Returned("NotificationService", call.op, body))

(* ------------------------- inputs and collaborators ------------------- *)

Chars == {"p", " ", "/"}

\* every string over Chars of length at most n
Strings(n) == UNION {[1..k -> Chars] : k \in 0..n}

PidArgs == {JsNull, JsUndefined} \cup {JsString(s) : s \in Strings(MaxLen)}

TypeArgs ==
  {JsString(s) : s \in {<<"citations">>, <<" ", "citations", "\t">>,
                        <<"Citations">>, <<"a", "/", "b">>, <<" ", "c", " ">>,
                        <<"c">>, <<"bogus">>, <<>>}}

\* headers a caller may put into the options
HeaderArgs ==
  {EmptyObject, [Accept |-> <<"text/plain">>],
   [Authorization |-> <<"Basic ", "xyz">>]}

\* the options argument: ky options (timeout, headers, method) and the
\* keys the request routine itself reads
OptionArgs ==
  {EmptyObject, [timeout |-> 10000]}
    \cup {[headers |-> h] : h \in HeaderArgs}
    \cup {[method |-> "PUT"], [pidRequired |-> FALSE], [pidRequired |-> TRUE],
          [resourceType |-> JsString(<<"citations">>)]}

\* an options argument of the declared type KyRequestOptions:
\* Omit<KyOptions, "method" | "prefixUrl" | "headers">
IsKyRequestOptions(options) ==
  DOMAIN options \cap {"method", "prefixUrl", "headers", "resourceType",
                       "pidRequired"} = {}

SuppliedValidator == JsFunction("validatePID")

SuppliedTokenSupplier == JsFunction("getToken")

\* what a validator can answer; the default validator answers true
ValidatorAnswers(cl) ==
  IF cl.validatePID = DefaultValidator
    THEN {JsBool(TRUE)}
    ELSE {JsBool(TRUE), JsBool(FALSE), JsUndefined}

TokenAnswers ==
  {JsString(<<"tok1">>), JsString(<<"tok2">>), JsString(<<>>), JsNull,
   JsUndefined}

Statuses == {200, 201, 204, 205, 304}

JsonBody(name) == [kind |-> "object", str |-> <<name>>]

Bodies == {JsonBody("body1"), JsonBody("body2")}

\* errors the collaborators fail with
ValidatorFailure == [name |-> "ValidatorFailure", message |-> "validator threw"]

TokenFailure == [name |-> "TokenFailure", message |-> "token supplier threw"]

HTTPError == [name |-> "HTTPError", message |-> "transport rejected"]

TimeoutError == [name |-> "TimeoutError", message |-> "request timed out"]

TransportFailures == {HTTPError, TimeoutError}

SyntaxError == [name |-> "SyntaxError", message |-> "malformed JSON"]

PrefixArgs == {JsUndefined, JsString(<<"https://host/v1", "/">>)}

TokenSupplierArgs == {JsUndefined, SuppliedTokenSupplier}

ValidatorArgs ==
  {JsUndefined, SuppliedValidator, JsString(<<>>), JsString(<<"yes">>)}

ResourceTypesArgs ==
  {[given |-> FALSE, items |-> <<>>],
   [given |-> TRUE, items |-> <<>>],
   [given |-> TRUE, items |-> << <<" ">> >>],
   [given |-> TRUE, items |-> << <<"a", "/", "b">>, <<" ", "c", " ">>, <<"c">> >>]}

Classes == {"NotificationClient", "NotificationService"}

\* the configuration records a client is constructed from; cls names the
\* class whose constructor is called
Configs ==
  [cls : Classes, prefixUrl : PrefixArgs, getToken : TokenSupplierArgs,
   validatePID : ValidatorArgs, resourceTypes : ResourceTypesArgs]

\* new <cfg.cls>(cfg)
New(cfg) ==
  IF cfg.cls = "NotificationClient"
    THEN NotificationClient(cfg)
    ELSE NotificationService(cfg)

Slots == {1}

\* the configurations the constructors are tried on
UrlChars == {"u", "/"}

WidePrefixArgs ==
  {JsUndefined, JsNull}
    \cup {JsString(s) : s \in UNION {[1..k -> UrlChars] : k \in 0..MaxUrlLen}}

WideTokenSupplierArgs ==
  {JsUndefined, JsNull, JsString(<<"tok1">>), SuppliedTokenSupplier}

WideValidatorArgs == ValidatorArgs \cup {JsBool(FALSE), JsBool(TRUE)}

WideResourceTypesArgs ==
  ResourceTypesArgs
    \cup {[given |-> TRUE, items |-> << <<" ">>, <<" ">> >>],
          [given |-> TRUE, items |-> << <<>>, <<"\t", " ">> >>],
          [given |-> TRUE, items |-> << <<"c">>, <<"C">>, <<"c">> >>],
          [given |-> TRUE, items |-> << <<" ", "c", " ", "d", "\n">>, <<" ">> >>]}

WideConfigs ==
  [cls : Classes, prefixUrl : WidePrefixArgs, getToken : WideTokenSupplierArgs,
   validatePID : WideValidatorArgs, resourceTypes : WideResourceTypesArgs]

\* no constructor has run yet
Unconstructed ==
  [ok |-> FALSE, cls |-> "none", error |-> TypeError(""), prefixUrl |-> <<>>,
   getToken |-> JsUndefined, validatePID |-> JsUndefined, resourceTypes |-> {}]

(* ------------------------------- actions ------------------------------ *)

Init ==
  /\ config \in Configs
  /\ client = New(config)
  /\ calls = [c \in Slots |-> Idle]

\* the awaited collaborator answered v: the call record keeps the answer
Settled(call, field, v, event) ==
  [call EXCEPT ![field] = v, !.log = Append(@, event)]

\* the awaited collaborator failed
Threw(call, event, e) ==
  [call EXCEPT !.thrown = e, !.log = Append(@, event)]

CanStart(c) == client.ok /\ calls[c].pc = "idle"

\* the calls that have settled and whose result the caller still holds
SettledCalls == {d \in DOMAIN calls : calls[d].pc \in {"resolved", "rejected"}}

\* a new call enters the request routine of the client's class; the record
\* notes the calls that had settled before it started
Enter(c, call) ==
  LET started == [call EXCEPT !.startedAfter = SettledCalls]
  IN  calls' = [calls EXCEPT ![c] =
                  IF client.cls = "NotificationClient"
                    THEN requestStart(client, started)
                    ELSE Service_requestStart(client, started)]

SubscribeIn(c, pids, types, opts) ==
  /\ CanStart(c)
  /\ \E pid \in pids, resourceType \in types, options \in opts :
       Enter(c, [Idle EXCEPT !.op = "subscribe", !.pid = pid,
                             !.resourceType = resourceType,
                             !.options = options,
                             !.intent = subscribe(resourceType, options)])
  /\ UNCHANGED <<config, client>>

UnsubscribeIn(c, pids, types, opts) ==
  /\ CanStart(c)
  /\ \E pid \in pids, resourceType \in types, options \in opts :
       Enter(c, [Idle EXCEPT !.op = "unsubscribe", !.pid = pid,
                             !.resourceType = resourceType,
                             !.options = options,
                             !.intent = unsubscribe(resourceType, options)])
  /\ UNCHANGED <<config, client>>

GetSubscriptionsIn(c, types, opts) ==
  /\ CanStart(c)
  /\ \E resourceType \in types, options \in opts :
       Enter(c, [Idle EXCEPT !.op = "getSubscriptions", !.pid = JsNull,
                             !.resourceType = resourceType,
                             !.options = options,
                             !.intent = getSubscriptions(resourceType, options)])
  /\ UNCHANGED <<config, client>>

Subscribe(c) == SubscribeIn(c, PidArgs, TypeArgs, OptionArgs)

Unsubscribe(c) == UnsubscribeIn(c, PidArgs, TypeArgs, OptionArgs)

GetSubscriptions(c) == GetSubscriptionsIn(c, TypeArgs, OptionArgs)

\* the awaited validator call settles: it answers, or it fails
ValidatorSettles(c) ==
  /\ calls[c].pc = "awaitValidator"
  /\ \/ \E answer \in ValidatorAnswers(client) :
          LET call == Settled(calls[c], "isValid", answer, "validatePID returned")
          IN  calls' = [calls EXCEPT ![c] =
                          IF client.cls = "NotificationClient"
                            THEN requestAfterValidator(call, answer)
                            ELSE Service_requestAfterValidator(call, answer)]
     \/ /\ client.validatePID # DefaultValidator
        /\ calls' = [calls EXCEPT ![c] =
                        requestFailed(Threw(calls[c], "validatePID threw",
                                            ValidatorFailure),
                                      ValidatorFailure)]
  /\ UNCHANGED <<config, client>>

\* the awaited token supplier call settles
TokenSettles(c) ==
  /\ calls[c].pc = "awaitToken"
  /\ \/ \E token \in TokenAnswers :
          LET call == Settled(calls[c], "token", token, "getToken returned")
          IN  calls' = [calls EXCEPT ![c] =
                          IF client.cls = "NotificationClient"
                            THEN requestAfterToken(call, token)
                            ELSE Service_requestAfterToken(call, token)]
     \/ calls' = [calls EXCEPT ![c] =
                     requestFailed(Threw(calls[c], "getToken threw", TokenFailure),
                                   TokenFailure)]
  /\ UNCHANGED <<config, client>>

\* the awaited transport call settles
TransportSettles(c) ==
  /\ calls[c].pc = "awaitTransport"
  /\ \/ \E status \in Statuses :
          LET call == Settled(calls[c], "status", status, "ky returned")
          IN  calls' = [calls EXCEPT ![c] =
                          IF client.cls = "NotificationClient"
                            THEN requestAfterResponse(call, status)
                            ELSE Service_requestAfterResponse(call, status)]
     \/ \E e \in TransportFailures :
          calls' = [calls EXCEPT ![c] =
                      requestFailed(Threw(calls[c], "ky threw", e), e)]
  /\ UNCHANGED <<config, client>>

\* the awaited response.json() settles
JsonSettles(c) ==
  /\ calls[c].pc = "awaitJson"
  /\ \/ \E body \in Bodies :
          LET call == Settled(calls[c], "body", body, "json returned")
          IN  calls' = [calls EXCEPT ![c] =
                          IF client.cls = "NotificationClient"
                            THEN requestAfterJson(call, body)
                            ELSE Service_requestAfterJson(call, body)]
     \/ calls' = [calls EXCEPT ![c] =
                     requestFailed(Threw(calls[c], "json threw", SyntaxError),
                                   SyntaxError)]
  /\ UNCHANGED <<config, client>>

\* the caller has taken the settled result of the call; the slot is free
Collect(c) ==
  /\ calls[c].pc \in {"resolved", "rejected"}
  /\ calls' = [d \in DOMAIN calls |->
                IF d = c THEN Idle
                         ELSE [calls[d] EXCEPT !.startedAfter = @ \ {c}]]
  /\ UNCHANGED <<config, client>>

Next ==
  \E c \in DOMAIN calls :
    \/ Collect(c)
    \/ Subscribe(c)
    \/ Unsubscribe(c)
    \/ GetSubscriptions(c)
    \/ ValidatorSettles(c)
    \/ TokenSettles(c)
    \/ TransportSettles(c)
    \/ JsonSettles(c)

Spec == Init /\ [][Next]_vars

(* construction alone, on the wide set of configurations *)

InitConstruct ==
  /\ config \in WideConfigs
  /\ client = Unconstructed
  /\ calls = [c \in Slots |-> Idle]

\* new NotificationClient(config): a client, or the error thrown
ConstructClient ==
  /\ client = Unconstructed
  /\ config.cls = "NotificationClient"
  /\ client' = NotificationClient(config)
  /\ UNCHANGED <<config, calls>>

\* new NotificationService(config): a client, or the error thrown
ConstructService ==
  /\ client = Unconstructed
  /\ config.cls = "NotificationService"
  /\ client' = NotificationService(config)
  /\ UNCHANGED <<config, calls>>

NextConstruct == ConstructClient \/ ConstructService

SpecConstruct == InitConstruct /\ [][NextConstruct]_vars

(* two calls on one constructed client, on a small set of arguments *)

PairSlots == {1, 2}

PairConfigs ==
  [cls : Classes, prefixUrl : {JsString(<<"https://host/v1", "/">>)},
   getToken : {SuppliedTokenSupplier},
   validatePID : {JsUndefined, SuppliedValidator},
   resourceTypes : {[given |-> FALSE, items |-> <<>>]}]

PairPidArgs == {JsString(<<"p">>), JsString(<<"/">>)}

PairTypeArgs == {JsString(<<"citations">>), JsString(<<"datasetChanges">>)}

PairOptionArgs == {EmptyObject}

InitPair ==
  /\ config \in PairConfigs
  /\ client = New(config)
  /\ calls = [c \in PairSlots |-> Idle]

NextPair ==
  \E c \in DOMAIN calls :
    \/ Collect(c)
    \/ SubscribeIn(c, PairPidArgs, PairTypeArgs, PairOptionArgs)
    \/ UnsubscribeIn(c, PairPidArgs, PairTypeArgs, PairOptionArgs)
    \/ GetSubscriptionsIn(c, PairTypeArgs, PairOptionArgs)
    \/ ValidatorSettles(c)
    \/ TokenSettles(c)
    \/ TransportSettles(c)
    \/ JsonSettles(c)

SpecPair == InitPair /\ [][NextPair]_vars

TypeOK ==
  /\ client.cls \in Classes \cup {"none"}
  /\ \A c \in DOMAIN calls :
       calls[c].pc \in {"idle", "awaitValidator", "awaitToken",
                        "awaitTransport", "awaitJson", "resolved", "rejected"}

(* ------------------------------ properties ---------------------------- *)

InLog(call, event) == \E i \in DOMAIN call.log : call.log[i] = event

\* a call on a NotificationClient whose options argument is a
\* KyRequestOptions record
ClientCall(c) ==
  /\ client.ok
  /\ client.cls = "NotificationClient"
  /\ calls[c].pc # "idle"
  /\ IsKyRequestOptions(calls[c].options)

\* neither the validator, nor the token supplier, nor the transport was
\* invoked in the call
NoCollaboratorInvoked(call) ==
  /\ call.validatorArgs = <<>>
  /\ call.tokenCalls = 0
  /\ call.kyCalls = <<>>

\* the argument is null, undefined, empty or whitespace only
BlankPid(pid) ==
  \/ pid.kind \in {"null", "undefined"}
  \/ \A i \in DOMAIN pid.str : pid.str[i] \in WhiteSpace

\* the resourceType argument, trimmed, is in the client's allowed set
AllowedType(c) == trim(calls[c].resourceType.str) \in client.resourceTypes

\* C1: a call of subscribe, unsubscribe or getSubscriptions whose trimmed
\* resourceType argument is not in the allowed set is rejected with the
\* TypeError 'Invalid resource type', whatever the pid, and it invokes
\* neither the PID validator, nor the token supplier, nor the transport.
C1_InvalidTypeRejectedFirst ==
  \A c \in Slots :
    (ClientCall(c) /\ ~AllowedType(c)) =>
      /\ calls[c].pc = "rejected"
      /\ calls[c].error = [name |-> "TypeError", message |-> "Invalid resource type"]
      /\ NoCollaboratorInvoked(calls[c])

\* an unsubscribe of a blank pid with a resource type that is not allowed
C1_Witness ==
  \E c \in Slots :
    /\ ClientCall(c) /\ ~AllowedType(c)
    /\ calls[c].op = "unsubscribe"
    /\ calls[c].pid = JsString(<<" ">>)
    /\ client.validatePID = SuppliedValidator
    /\ calls[c].pc = "rejected"

\* C2: subscribe and unsubscribe with an allowed resourceType and a pid that
\* is null, undefined, empty or whitespace only are rejected with the
\* TypeError 'PID is required' and invoke neither the PID validator, nor the
\* token supplier, nor the transport.
C2_BlankPidRejected ==
  \A c \in Slots :
    (/\ ClientCall(c) /\ AllowedType(c)
     /\ calls[c].op \in {"subscribe", "unsubscribe"}
     /\ BlankPid(calls[c].pid)) =>
      /\ calls[c].pc = "rejected"
      /\ calls[c].error = [name |-> "TypeError", message |-> "PID is required"]
      /\ NoCollaboratorInvoked(calls[c])

\* a subscribe of a whitespace-only pid
C2_Witness ==
  \E c \in Slots :
    /\ ClientCall(c) /\ AllowedType(c)
    /\ calls[c].op = "subscribe"
    /\ calls[c].pid.kind = "string" /\ calls[c].pid.str # <<>>
    /\ BlankPid(calls[c].pid)
    /\ calls[c].pc = "rejected"

\* C3: when the PID validator answers a falsy value, subscribe and
\* unsubscribe are rejected with the TypeError 'PID is invalid'; the
\* validator was invoked exactly once, with the trimmed pid, and the token
\* supplier and the transport were not invoked.
C3_InvalidPidRejected ==
  \A c \in Slots :
    (/\ ClientCall(c)
     /\ calls[c].op \in {"subscribe", "unsubscribe"}
     /\ InLog(calls[c], "validatePID returned")
     /\ ~Truthy(calls[c].isValid)) =>
      /\ calls[c].pc = "rejected"
      /\ calls[c].error = [name |-> "TypeError", message |-> "PID is invalid"]
      /\ calls[c].validatorArgs = <<JsString(trim(calls[c].pid.str))>>
      /\ calls[c].tokenCalls = 0
      /\ calls[c].kyCalls = <<>>

\* the validator answered undefined for a pid that had to be trimmed
C3_Witness ==
  \E c \in Slots :
    /\ ClientCall(c)
    /\ calls[c].op = "subscribe"
    /\ calls[c].pid = JsString(<<" ", "p">>)
    /\ InLog(calls[c], "validatePID returned")
    /\ calls[c].isValid = JsUndefined
    /\ calls[c].pc = "rejected"

\* C4: when the token supplier answers an empty/falsy token, the call is
\* rejected with the Error 'Token is required' and the transport is not
\* invoked; subscribe and unsubscribe have invoked the validator exactly
\* once, and before the token supplier; getSubscriptions has not invoked it.
C4_EmptyTokenRejected ==
  \A c \in Slots :
    (/\ ClientCall(c)
     /\ InLog(calls[c], "getToken returned")
     /\ ~Truthy(calls[c].token)) =>
      /\ calls[c].pc = "rejected"
      /\ calls[c].error = [name |-> "Error", message |-> "Token is required"]
      /\ calls[c].kyCalls = <<>>
      /\ calls[c].tokenCalls = 1
      /\ (calls[c].op \in {"subscribe", "unsubscribe"} =>
            /\ Len(calls[c].validatorArgs) = 1
            /\ calls[c].log = <<"validatePID", "validatePID returned",
                                "getToken", "getToken returned">>)
      /\ (calls[c].op = "getSubscriptions" =>
            /\ calls[c].validatorArgs = <<>>
            /\ calls[c].log = <<"getToken", "getToken returned">>)

\* an unsubscribe whose token supplier answered null
C4_Witness ==
  \E c \in Slots :
    /\ ClientCall(c)
    /\ calls[c].op = "unsubscribe"
    /\ calls[c].token = JsNull
    /\ InLog(calls[c], "getToken returned")
    /\ calls[c].pc = "rejected"

\* C5: getSubscriptions never invokes the PID validator, whatever the
\* validator would answer, and never fails with a PID error or with the
\* validator's failure.
C5_ListNeverValidates ==
  \A c \in Slots :
    (ClientCall(c) /\ calls[c].op = "getSubscriptions") =>
      /\ calls[c].validatorArgs = <<>>
      /\ ~InLog(calls[c], "validatePID")
      /\ (calls[c].pc = "rejected" =>
            /\ calls[c].error.message \notin {"PID is invalid", "PID is required"}
            /\ calls[c].error.name # "ValidatorFailure")

\* a getSubscriptions that resolved on a client with a supplied validator
C5_Witness ==
  \E c \in Slots :
    /\ ClientCall(c)
    /\ calls[c].op = "getSubscriptions"
    /\ client.validatePID = SuppliedValidator
    /\ calls[c].pc = "resolved"
    /\ calls[c].value = calls[c].body
    /\ calls[c].jsonCalls = 1

\* the number of "/" characters in a string
RECURSIVE SlashCount(_)
SlashCount(s) ==
  IF s = <<>> THEN 0
  ELSE (IF Head(s) = "/" THEN 1 ELSE 0) + SlashCount(Tail(s))

\* the headers a caller put into the options; none is the empty record
CallerHeaders(options) ==
  IF "headers" \in DOMAIN options THEN options.headers ELSE EmptyObject

\* C6: a subscribe whose transport answered a status outside 204, 205, 304
\* and whose body decoded to b resolves to b; the token supplier was invoked
\* once, and the transport once, with the endpoint encode(type) "/"
\* encode(pid), method POST and headers { Authorization: "Bearer " + token }.
C6_SubscribeRoundTrip ==
  \A c \in Slots :
    (/\ ClientCall(c)
     /\ calls[c].op = "subscribe"
     /\ calls[c].pc = "resolved"
     /\ calls[c].status \notin {204, 205, 304}) =>
      /\ calls[c].value = calls[c].body
      /\ calls[c].body \in Bodies
      /\ calls[c].tokenCalls = 1
      /\ Len(calls[c].kyCalls) = 1
      /\ calls[c].kyCalls[1].endpoint =
           encodeURIComponent(trim(calls[c].resourceType.str)) \o <<"/">>
             \o encodeURIComponent(trim(calls[c].pid.str))
      /\ calls[c].kyCalls[1].options.method = "POST"
      /\ calls[c].kyCalls[1].options.headers =
           [Authorization |-> <<"Bearer ">> \o calls[c].token.str]

\* subscribe("p", "citations") with token tok1, status 200 and body body1
C6_Witness ==
  \E c \in Slots :
    /\ ClientCall(c)
    /\ calls[c].op = "subscribe"
    /\ calls[c].pid = JsString(<<"p">>)
    /\ calls[c].resourceType = JsString(<<"citations">>)
    /\ calls[c].options = EmptyObject
    /\ calls[c].status = 200
    /\ calls[c].pc = "resolved"
    /\ calls[c].value = JsonBody("body1")
    /\ calls[c].kyCalls =
         << [endpoint |-> <<"citations", "/", "p">>,
             options |-> [method |-> "POST",
                          headers |-> [Authorization |-> <<"Bearer ", "tok1">>]]] >>

\* C7: once the transport has answered, a status 204, 205 or 304 resolves
\* the call to undefined without any JSON decode; any other status makes
\* exactly one JSON decode, whose result is what subscribe and
\* getSubscriptions resolve to.
C7_ResponseInterpretation ==
  \A c \in Slots :
    InLog(calls[c], "ky returned") =>
      /\ (calls[c].status \in {204, 205, 304} =>
            /\ calls[c].pc = "resolved"
            /\ calls[c].value = JsUndefined
            /\ calls[c].jsonCalls = 0)
      /\ (calls[c].status \notin {204, 205, 304} =>
            /\ calls[c].jsonCalls = 1
            /\ calls[c].pc \in {"awaitJson", "resolved", "rejected"}
            /\ ((calls[c].pc = "resolved"
                  /\ calls[c].op \in {"subscribe", "getSubscriptions"}) =>
                  /\ InLog(calls[c], "json returned")
                  /\ calls[c].value = calls[c].body))

\* a subscribe answered with status 304
C7_Witness ==
  \E c \in Slots :
    /\ calls[c].op = "subscribe"
    /\ InLog(calls[c], "ky returned")
    /\ calls[c].status = 304
    /\ calls[c].pc = "resolved"
    /\ calls[c].jsonCalls = 0

\* C8: an unsubscribe that succeeds resolves to undefined, never to the
\* response body, and its transport call used DELETE on
\* encode(resourceType) "/" encode(pid).  (Both classes; the options
\* argument is a KyRequestOptions record.)
C8_UnsubscribeResolvesToNothing ==
  \A c \in Slots :
    (/\ client.ok
     /\ IsKyRequestOptions(calls[c].options)
     /\ calls[c].op = "unsubscribe"
     /\ calls[c].pc = "resolved") =>
      /\ calls[c].value = JsUndefined
      /\ Len(calls[c].kyCalls) = 1
      /\ calls[c].kyCalls[1].options.method = "DELETE"
      /\ SlashCount(calls[c].kyCalls[1].endpoint) = 1

\* C9: on every transport invocation the headers are
\* { Authorization: "Bearer " + token } with the caller's headers merged on
\* top; without an Authorization key among the caller's headers the
\* Authorization header is still sent.
C9_HeadersMerged ==
  \A c \in Slots :
    \A i \in DOMAIN calls[c].kyCalls :
      calls[c].kyCalls[i].options.headers =
        Spread([Authorization |-> <<"Bearer ">> \o calls[c].token.str],
               CallerHeaders(calls[c].options))

\* C10: the endpoint of subscribe and unsubscribe is the encoded, trimmed
\* resourceType, one "/", and the encoded, trimmed pid, and holds exactly one
\* "/"; the endpoint of getSubscriptions is the encoded resourceType alone
\* and holds no "/".
C10_EndpointSegments ==
  \A c \in Slots :
    ClientCall(c) =>
      \A i \in DOMAIN calls[c].kyCalls :
        LET endpoint == calls[c].kyCalls[i].endpoint
            t == encodeURIComponent(trim(calls[c].resourceType.str))
        IN  IF calls[c].op = "getSubscriptions"
              THEN endpoint = t /\ SlashCount(endpoint) = 0
              ELSE /\ endpoint =
                        t \o <<"/">> \o encodeURIComponent(trim(calls[c].pid.str))
                   /\ SlashCount(endpoint) = 1

\* unsubscribe("/p", "a/b") reached the transport
C10_Witness ==
  \E c \in Slots :
    /\ ClientCall(c)
    /\ calls[c].op = "unsubscribe"
    /\ calls[c].pid = JsString(<<"/", "p">>)
    /\ calls[c].resourceType = JsString(<<"a", "/", "b">>)
    /\ Len(calls[c].kyCalls) = 1
    /\ calls[c].kyCalls[1].endpoint =
         <<"a", "%", "2", "F", "b", "/", "%", "2", "F", "p">>

(* ---------------------- properties of construction -------------------- *)

\* the constructor of NotificationClient has run on config
ClientConstructed == client.cls = "NotificationClient"

\* check 1: prefixUrl is missing or empty
PrefixMissing(cfg) ==
  cfg.prefixUrl.kind \in {"undefined", "null"}
    \/ (cfg.prefixUrl.kind = "string" /\ cfg.prefixUrl.str = <<>>)

\* check 2: getToken is not callable
TokenSupplierNotCallable(cfg) == cfg.getToken.kind # "function"

\* check 3: a validatePID value is supplied and it is not callable
ValidatorNotCallable(cfg) ==
  cfg.validatePID.kind \notin {"undefined", "function"}

\* a string of whitespace only (or no character at all)
Blank(str) == \A i \in DOMAIN str : str[i] \in WhiteSpace

\* check 4: no entry of resourceTypes is left after trimming
TypesNormalizeToEmpty(cfg) ==
  cfg.resourceTypes.given
    /\ \A i \in DOMAIN cfg.resourceTypes.items : Blank(cfg.resourceTypes.items[i])

\* the message of the lowest-numbered check the configuration violates
FirstViolation(cfg) ==
  IF PrefixMissing(cfg) THEN "prefixUrl is required"
  ELSE IF TokenSupplierNotCallable(cfg) THEN "A getToken function is required"
  ELSE IF ValidatorNotCallable(cfg) THEN "validatePID must be a function"
  ELSE IF TypesNormalizeToEmpty(cfg)
    THEN "resourceTypes must be a non-empty array of strings"
  ELSE "none"

\* C11: construction checks prefixUrl, getToken, validatePID and
\* resourceTypes in this order; a configuration that violates one or several
\* of the checks yields no client but the error of the lowest-numbered
\* violated check.
C11_FirstFailureWins ==
  (ClientConstructed /\ FirstViolation(config) # "none") =>
    /\ ~client.ok
    /\ client.error = [name |-> "TypeError", message |-> FirstViolation(config)]

\* the entries of the configured resourceTypes (the default ones if none is
\* given)
GivenTypes(cfg) ==
  IF cfg.resourceTypes.given THEN cfg.resourceTypes.items ELSE DEFAULT_TYPES

\* t is an entry without its leading and trailing whitespace
IsCoreOf(t, entry) ==
  /\ t # <<>>
  /\ Head(t) \notin WhiteSpace
  /\ t[Len(t)] \notin WhiteSpace
  /\ \E i \in 1..Len(entry), j \in 1..Len(entry) :
       /\ i <= j
       /\ t = SubSeq(entry, i, j)
       /\ Blank(SubSeq(entry, 1, i - 1))
       /\ Blank(SubSeq(entry, j + 1, Len(entry)))

\* C12: the allowed set of a constructed client is exactly the set of the
\* trimmed, non-empty entries of resourceTypes: every member is non-empty
\* and has no leading or trailing whitespace, entries that differ in case
\* stay different; when no entry is left, construction fails (with the
\* resourceTypes error when the three earlier checks pass).
C12_TypesNormalized ==
  ClientConstructed =>
    /\ (TypesNormalizeToEmpty(config) => ~client.ok)
    /\ ((/\ TypesNormalizeToEmpty(config)
         /\ ~PrefixMissing(config)
         /\ ~TokenSupplierNotCallable(config)
         /\ config.validatePID.kind \in {"undefined", "function"}) =>
           client.error = [name |-> "TypeError",
                           message |-> "resourceTypes must be a non-empty array of strings"])
    /\ (client.ok =>
          /\ client.resourceTypes # {}
          /\ \A t \in client.resourceTypes :
               \E i \in DOMAIN GivenTypes(config) : IsCoreOf(t, GivenTypes(config)[i])
          /\ \A i \in DOMAIN GivenTypes(config) :
               Blank(GivenTypes(config)[i])
                 \/ \E t \in client.resourceTypes : IsCoreOf(t, GivenTypes(config)[i]))

\* a client built from [" c d\n", " "]: the allowed set is {"c d"}
C12_Witness ==
  /\ ClientConstructed
  /\ client.ok
  /\ config.resourceTypes.items = << <<" ", "c", " ", "d", "\n">>, <<" ">> >>
  /\ client.resourceTypes = {<<"c", " ", "d">>}

\* construction failed on resourceTypes of blank strings only
C12_WitnessEmpty ==
  /\ ClientConstructed
  /\ ~client.ok
  /\ config.resourceTypes.items = << <<" ">>, <<" ">> >>
  /\ client.error.message = "resourceTypes must be a non-empty array of strings"

\* C13: with a valid prefixUrl and getToken, a supplied validatePID that is
\* not a function makes construction fail with 'validatePID must be a
\* function'; so every constructed client holds a callable validator (the
\* supplied one, or the default one), and no call is rejected because the
\* validator cannot be called.
C13_ValidatorCallable ==
  (client.cls \in Classes) =>
    /\ ((/\ ~PrefixMissing(config)
         /\ ~TokenSupplierNotCallable(config)
         /\ ValidatorNotCallable(config)) =>
           /\ ~client.ok
           /\ client.error = [name |-> "TypeError",
                              message |-> "validatePID must be a function"])
    /\ (client.ok =>
          /\ client.validatePID.kind = "function"
          /\ client.validatePID =
               IF config.validatePID.kind = "undefined"
                 THEN DefaultValidator ELSE config.validatePID)
    /\ \A c \in DOMAIN calls :
         calls[c].pc = "rejected" =>
           calls[c].error.message # "validatePID is not a function"

\* C14: the stored base URL of a constructed client is the supplied one
\* without its trailing "/" characters; it is not empty and does not end
\* with "/".
C14_PrefixUrlNormalized ==
  (ClientConstructed /\ client.ok) =>
    /\ client.prefixUrl # <<>>
    /\ client.prefixUrl[Len(client.prefixUrl)] # "/"
    /\ \E k \in 0..Len(config.prefixUrl.str) :
         /\ client.prefixUrl = SubSeq(config.prefixUrl.str, 1, k)
         /\ \A i \in (k + 1)..Len(config.prefixUrl.str) :
              config.prefixUrl.str[i] = "/"

(* ------------------ properties of calls, continued -------------------- *)

\* C15: when the transport rejects with e, or the JSON decode of the
\* response rejects with e, the call is rejected with that same e (not
\* wrapped, not replaced, not resolved), and the transport was invoked
\* exactly once in the call.
C15_FailuresPropagate ==
  \A c \in DOMAIN calls :
    (InLog(calls[c], "ky threw") \/ InLog(calls[c], "json threw")) =>
      /\ calls[c].pc = "rejected"
      /\ calls[c].error = calls[c].thrown
      /\ calls[c].error \in TransportFailures \cup {SyntaxError}
      /\ Len(calls[c].kyCalls) = 1
      /\ (InLog(calls[c], "json threw") => calls[c].jsonCalls = 1)

\* an unsubscribe on a NotificationClient whose transport timed out
C15_Witness ==
  \E c \in DOMAIN calls :
    /\ client.cls = "NotificationClient"
    /\ calls[c].op = "unsubscribe"
    /\ InLog(calls[c], "ky threw")
    /\ calls[c].pc = "rejected"
    /\ calls[c].error = TimeoutError

\* the transport returned the same data to both calls
SameData(a, b) == a.status = b.status /\ a.body = b.body

\* C16: when a getSubscriptions call d is started after a getSubscriptions
\* call c with the same resourceType has resolved, and d resolves too, then d
\* has invoked the token supplier once and the transport once itself, its
\* Authorization header carries the token its own invocation returned, and
\* if the transport returned the same data to both, both resolve to equal
\* values.
C16_NoCrossCallCache ==
  \A c, d \in DOMAIN calls :
    (/\ c \in calls[d].startedAfter
     /\ calls[c].op = "getSubscriptions"
     /\ calls[d].op = "getSubscriptions"
     /\ calls[c].resourceType = calls[d].resourceType
     /\ calls[c].pc = "resolved"
     /\ calls[d].pc = "resolved") =>
      /\ calls[d].tokenCalls = 1
      /\ Len(calls[d].kyCalls) = 1
      /\ calls[d].kyCalls[1].options.headers.Authorization =
           <<"Bearer ">> \o calls[d].token.str
      /\ (SameData(calls[c], calls[d]) => calls[c].value = calls[d].value)

\* getSubscriptions("citations") twice in succession, the supplier answering
\* tok1 and then tok2, the transport answering 200 and body1 both times
C16_Witness ==
  \E c, d \in DOMAIN calls :
    /\ c \in calls[d].startedAfter
    /\ calls[c].op = "getSubscriptions"
    /\ calls[d].op = "getSubscriptions"
    /\ calls[c].resourceType = JsString(<<"citations">>)
    /\ calls[d].resourceType = JsString(<<"citations">>)
    /\ calls[c].pc = "resolved"
    /\ calls[d].pc = "resolved"
    /\ calls[c].token = JsString(<<"tok1">>)
    /\ calls[d].token = JsString(<<"tok2">>)
    /\ calls[c].status = 200
    /\ calls[d].status = 200
    /\ calls[c].value = JsonBody("body1")
    /\ calls[d].value = JsonBody("body1")
    /\ calls[d].kyCalls[1].options.headers.Authorization = <<"Bearer ", "tok2">>

\* the collaborator events of one call, in pipeline order
Pipeline ==
  <<"validatePID", "validatePID returned", "getToken", "getToken returned",
    "ky", "ky returned", "json", "json returned">>

Failures ==
  {"validatePID threw", "getToken threw", "ky threw", "json threw"}

\* the event a failure stands in the place of
Outcome(event) ==
  CASE event = "validatePID threw" -> "validatePID returned"
    [] event = "getToken threw" -> "getToken returned"
    [] event = "ky threw" -> "ky returned"
    [] event = "json threw" -> "json returned"
    [] OTHER -> event

IsPrefix(a, b) ==
  /\ Len(a) <= Len(b)
  /\ \A i \in DOMAIN a : a[i] = b[i]

\* C17: the collaborator events of one call occur only in the order
\* validator (subscribe and unsubscribe only), token supplier, transport,
\* JSON decode, each at most once; an invocation is logged only directly
\* after the previous collaborator's result, and only when that result passed
\* its check (valid pid, non-empty token, status with a body); a failure is
\* the last event of its call.
C17_SequentialPipeline ==
  \A c \in DOMAIN calls :
    LET call == calls[c]
        log == call.log
        shape == [i \in DOMAIN log |-> Outcome(log[i])]
        canon == IF InLog(call, "validatePID")
                   THEN Pipeline
                   ELSE SubSeq(Pipeline, 3, Len(Pipeline))
    IN  /\ IsPrefix(shape, canon)
        /\ \A i \in DOMAIN log :
             log[i] \in Failures => (i = Len(log) /\ call.pc = "rejected")
        /\ InLog(call, "validatePID") => call.op \in {"subscribe", "unsubscribe"}
        /\ (InLog(call, "validatePID") /\ InLog(call, "getToken")) =>
             Truthy(call.isValid)
        /\ InLog(call, "ky") => Truthy(call.token)
        /\ InLog(call, "json") => call.status \notin noBodyStatuses
        /\ Len(call.validatorArgs) = (IF InLog(call, "validatePID") THEN 1 ELSE 0)
        /\ call.tokenCalls = (IF InLog(call, "getToken") THEN 1 ELSE 0)
        /\ Len(call.kyCalls) = (IF InLog(call, "ky") THEN 1 ELSE 0)
        /\ call.jsonCalls = (IF InLog(call, "json") THEN 1 ELSE 0)
        /\ (call.pc = "awaitValidator") <=> (log # <<>> /\ log[Len(log)] = "validatePID")
        /\ (call.pc = "awaitToken") <=> (log # <<>> /\ log[Len(log)] = "getToken")
        /\ (call.pc = "awaitTransport") <=> (log # <<>> /\ log[Len(log)] = "ky")
        /\ (call.pc = "awaitJson") <=> (log # <<>> /\ log[Len(log)] = "json")

\* an unsubscribe that went through all four collaborators and resolved
C17_Witness ==
  \E c \in DOMAIN calls :
    /\ calls[c].op = "unsubscribe"
    /\ calls[c].pc = "resolved"
    /\ calls[c].log = Pipeline

\* the method each operation dispatches
OperationMethod(op) ==
  CASE op = "subscribe" -> HTTP_METHODS.POST
    [] op = "unsubscribe" -> HTTP_METHODS.DELETE
    [] OTHER -> HTTP_METHODS.GET

\* the endpoint of an operation on its own arguments
OperationEndpoint(call) ==
  IF call.op = "getSubscriptions"
    THEN encodeURIComponent(trim(call.resourceType.str))
    ELSE encodeURIComponent(trim(call.resourceType.str)) \o <<"/">>
           \o encodeURIComponent(trim(call.pid.str))

\* both calls have settled and neither was started after the other settled:
\* they were in flight at the same time
Overlapped(c, d) ==
  /\ c # d
  /\ calls[c].pc \in {"resolved", "rejected"}
  /\ calls[d].pc \in {"resolved", "rejected"}
  /\ c \notin calls[d].startedAfter
  /\ d \notin calls[c].startedAfter

\* C18: with two calls in flight on one client, in every reachable state the
\* client is the one the constructor made; the transport request of each
\* call carries the method of its own operation, the endpoint of its own
\* resourceType and pid and the token its own getToken() invocation
\* returned; and a call that resolves after a status with a body resolves to
\* the body decoded from its own response (unsubscribe: to that or nothing).
C18_ConcurrentCallsIndependent ==
  /\ client.ok
  /\ client = New(config)
  /\ \A c \in DOMAIN calls :
       LET call == calls[c]
       IN  /\ (call.kyCalls # <<>>) =>
                (/\ Len(call.kyCalls) = 1
                 /\ call.kyCalls[1].options.method = OperationMethod(call.op)
                 /\ call.kyCalls[1].endpoint = OperationEndpoint(call)
                 /\ call.kyCalls[1].options.headers.Authorization =
                      <<"Bearer ">> \o call.token.str)
           /\ (call.pc = "resolved" /\ call.status \notin noBodyStatuses) =>
                (/\ call.body \in Bodies
                 /\ (call.op # "unsubscribe" => call.value = call.body)
                 /\ (call.op = "unsubscribe" =>
                       call.value \in {JsUndefined, call.body}))

\* a subscribe and a getSubscriptions that were in flight together on a
\* NotificationClient, with different tokens and different bodies
C18_Witness ==
  \E c, d \in DOMAIN calls :
    /\ ClientConstructed
    /\ Overlapped(c, d)
    /\ calls[c].op = "subscribe"
    /\ calls[d].op = "getSubscriptions"
    /\ calls[c].pid = JsString(<<"/">>)
    /\ calls[c].resourceType = JsString(<<"citations">>)
    /\ calls[d].resourceType = JsString(<<"datasetChanges">>)
    /\ calls[c].token = JsString(<<"tok1">>)
    /\ calls[d].token = JsString(<<"tok2">>)
    /\ calls[c].pc = "resolved"
    /\ calls[d].pc = "resolved"
    /\ calls[c].value = JsonBody("body1")
    /\ calls[d].value = JsonBody("body2")
    /\ calls[c].kyCalls[1].endpoint = <<"citations", "/", "%", "2", "F">>
    /\ calls[d].kyCalls[1].endpoint = <<"datasetChanges">>

\* C19: on a NotificationClient, whatever options record the caller passes,
\* also one with keys
\* named method, resourceType or pidRequired, the request made for it has
\* the operation's method (subscribe POST, unsubscribe DELETE,
\* getSubscriptions GET), subscribe and unsubscribe require a PID and put
\* one PID segment into the endpoint, getSubscriptions puts none, and the
\* resource type handed to the request routine is the resourceType argument.
C19_IntentFixed ==
  \A c \in DOMAIN calls :
    LET call == calls[c]
    IN  (ClientConstructed /\ call.op # "none") =>
          /\ MethodOf(call.intent) = OperationMethod(call.op)
          /\ PidRequiredOf(call.intent) = (call.op # "getSubscriptions")
          /\ call.intent.resourceType = call.resourceType
          /\ (call.op # "getSubscriptions" /\ BlankPid(call.pid)) =>
               call.kyCalls = <<>>
          /\ (call.kyCalls # <<>>) =>
               (/\ call.kyCalls[1].options.method = OperationMethod(call.op)
                /\ SlashCount(call.kyCalls[1].endpoint) =
                     (IF call.op = "getSubscriptions" THEN 0 ELSE 1))

\* the same statement for options of the declared type KyRequestOptions
C19_IntentFixedForKyOptions ==
  \A c \in DOMAIN calls :
    LET call == calls[c]
    IN  (ClientConstructed /\ call.op # "none"
           /\ IsKyRequestOptions(call.options)) =>
          /\ MethodOf(call.intent) = OperationMethod(call.op)
          /\ PidRequiredOf(call.intent) = (call.op # "getSubscriptions")
          /\ call.intent.resourceType = call.resourceType
          /\ (call.op # "getSubscriptions" /\ BlankPid(call.pid)) =>
               call.kyCalls = <<>>
          /\ (call.kyCalls # <<>>) =>
               (/\ call.kyCalls[1].options.method = OperationMethod(call.op)
                /\ SlashCount(call.kyCalls[1].endpoint) =
                     (IF call.op = "getSubscriptions" THEN 0 ELSE 1))

====
